---- MODULE Spec2Model ----
(***************************************************************************)
(* Model of the attrition-risk pipeline of this repository:                *)
(*   src/Attrition_Risk.ipynb  the notebook, run cell by cell, top down    *)
(*   src/IBM-HR.R              the R script, run statement by statement    *)
(* One behaviour is one execution of one of the two programs on one input  *)
(* CSV file.  The library calls the programs make (pandas, scikit-learn,   *)
(* statsmodels, base R) are modelled by what they do on the values the     *)
(* programs hand them; the numerical fits are external and are modelled by *)
(* a nondeterministic choice of the fitted coefficients or of the          *)
(* predicted labels.                                                       *)
(***************************************************************************)
EXTENDS Integers, Sequences, FiniteSets, TLC

(***************************************************************************)
(* Bounds of the model.                                                    *)
(***************************************************************************)
\* largest number of rows of the input CSV file
MaxN == 6
\* largest number of distinct Education levels in the input CSV file
MaxLevels == 2

(***************************************************************************)
(* Literals of the programs.                                               *)
(***************************************************************************)
\* a fraction is a pair <<numerator, denominator>>
TestSize1 == <<1, 5>>
TestSize2 == <<1, 4>>
\* probabilities are percentages: th = 0.5 is 50
th == 50
RThreshold == 50
SplitSeed == 0
SampleSize == 3

VARIABLES
  program,      \* which of the two programs this behaviour executes
  csv,          \* the input file WA_Fn-UseC_-HR-Employee-Attrition.csv
  run,          \* number of the current run of the program
  splitLog,     \* history: per run, the seed of the global generator and the
                \* index arrays each train_test_split returned
  np_random,    \* numpy's global RandomState: [seed, pos, ints]
  pc,           \* the cell (statement) to execute next
  status,       \* "running", "done" or "error" (an uncaught exception)
  err,          \* the exception that stopped the run
  stages,       \* history: the pipeline stages executed so far, in order
  useLog,       \* history: per cell, the partitions it read through the
                \* names xtrain, xtest, ytrain, ytest (and xtrain2)
  heap,         \* the DataFrame objects; a name holds an index into heap
  empattr, objcols, catcols, out_overlap, empattr_obj, empattr_numerical_cols,
  result, predictors, response,
  xtrain, xtest, ytrain, ytest,
  xtrain2, smf_model_train_result, fitted_xtrain2_recoded,
  predictions_test, predictions_results, predictions_results_recoded,
  attr_forest, forest_pred, attr_forest_CM, fm_test_acc,
  newdf, recodecols, newPreds, newY, newmodel, preds, recodedpreds, new_acc,
  dataset, dataset2, model1, results, recoded_fitted, tempor, r_acc

ctlVars == <<program, csv, run, splitLog, np_random, pc, status, err, stages,
             useLog>>
classVars == <<objcols, catcols, out_overlap, empattr_obj, empattr_numerical_cols>>
splitVars == <<xtrain, xtest, ytrain, ytest>>
glmVars == <<result, predictors, response, xtrain2, smf_model_train_result,
             fitted_xtrain2_recoded, predictions_test, predictions_results,
             predictions_results_recoded>>
forestVars == <<attr_forest, forest_pred, attr_forest_CM, fm_test_acc>>
newVars == <<newdf, recodecols, newPreds, newY, newmodel, preds, recodedpreds, new_acc>>
rVars == <<dataset, dataset2, model1, results, recoded_fitted, tempor, r_acc>>
vars == <<ctlVars, heap, empattr, classVars, splitVars, glmVars, forestVars, newVars, rVars>>

(***************************************************************************)
(* Sequence helpers.                                                       *)
(***************************************************************************)
Range(s) == {s[i] : i \in 1..Len(s)}

SeqContains(s, x) == \E i \in 1..Len(s) : s[i] = x

\* the list without the elements satisfying the membership in drop
SeqWithout(s, drop) == SelectSeq(s, LAMBDA x : x \notin drop)

\* the elements of the finite set S of integers in increasing order
RECURSIVE SortedInts(_)
SortedInts(S) ==
  IF S = {} THEN <<>>
  ELSE LET m == CHOOSE x \in S : \A y \in S : x <= y
       IN <<m>> \o SortedInts(S \ {m})

\* 1-based position of x in the sequence s (x occurs in s)
IndexOf(s, x) == CHOOSE i \in 1..Len(s) : s[i] = x

\* number of positions of the sequence s that satisfy P
CountIf(s, P(_)) == Cardinality({i \in 1..Len(s) : P(s[i])})

(***************************************************************************)
(* The input file.  The columns are the ones the programs name.            *)
(***************************************************************************)
Columns ==
  <<"Age", "Attrition", "DistanceFromHome", "Education", "EmployeeCount",
    "EnvironmentSatisfaction", "Gender", "JobInvolvement", "JobSatisfaction",
    "PerformanceRating", "RelationshipSatisfaction", "StandardHours",
    "WorkLifeBalance", "YearsSinceLastPromotion">>

\* the strings of the table in Python's (and R's) sort order
Vocabulary == <<"Bachelor", "College", "Female", "Male", "Master", "No", "Yes">>

StrRank(s) == IndexOf(Vocabulary, s)

EduInts == <<3, 1, 4, 2>>
EduTexts == <<"College", "Bachelor", "Master", "Bachelor">>

\* an input file: n rows, the Attrition label of every row, the number of
\* distinct Education levels, and whether Education is written as text
\* (the rows cycle through MaxLevels levels, so a file of fewer rows has
\* fewer levels; the other declared categorical columns are constant)
CsvFiles ==
  UNION {[n : {m}, attrition : [0..(m - 1) -> {"No", "Yes"}],
          eduLevels : {MaxLevels}, eduText : BOOLEAN] : m \in 1..MaxN}

\* the value of column c in row i (0-based) of the file f
CellOf(f, c, i) ==
  CASE c = "Attrition" -> f.attrition[i]
    [] c = "Education" -> IF f.eduText THEN EduTexts[(i % f.eduLevels) + 1]
                          ELSE EduInts[(i % f.eduLevels) + 1]
    [] c = "Gender" -> IF i % 2 = 0 THEN "Female" ELSE "Male"
    [] c = "Age" -> 18 + i
    [] c = "DistanceFromHome" -> 1 + i
    [] c = "YearsSinceLastPromotion" -> i % 3
    [] c = "EmployeeCount" -> 1
    [] c = "StandardHours" -> 80
    [] OTHER -> 3

\* the dtype pandas infers for column c of the file f
DtypeOf(f, c) ==
  IF c \in {"Attrition", "Gender"} \/ (c = "Education" /\ f.eduText)
  THEN "O" ELSE "int64"

(***************************************************************************)
(* DataFrames.  A frame has its column labels in order, the dtype and the  *)
(* values of every column, and the row labels 0..n-1.                      *)
(***************************************************************************)
\* pd.read_csv
read_csv(f) ==
  [cols |-> Columns,
   n |-> f.n,
   dtype |-> [c \in Range(Columns) |-> DtypeOf(f, c)],
   data |-> [c \in Range(Columns) |-> [i \in 0..(f.n - 1) |-> CellOf(f, c, i)]]]

\* DataFrame.drop(columns = labels): a new frame without these columns
FrameDrop(fr, labels) ==
  LET keep == SeqWithout(fr.cols, labels)
  IN [cols |-> keep,
      n |-> fr.n,
      dtype |-> [c \in Range(keep) |-> fr.dtype[c]],
      data |-> [c \in Range(keep) |-> fr.data[c]]]

\* frame[c] = values, in place, with the dtype of the new values
FrameSetColumn(fr, c, values, dt) ==
  [fr EXCEPT !.dtype[c] = dt, !.data[c] = values]

\* the sort key of a cell of dtype dt
SortKey(dt, v) == IF dt = "O" THEN StrRank(v) ELSE v

\* LabelEncoder().fit_transform(column): classes_ are the sorted distinct
\* values, each value is replaced by its 0-based position in classes_
\* (a plausible slip: the values are numbered in the order of their first
\* occurrence)
LabelEncoderFirstSeen(dt, column) ==
  LET first(i) == CHOOSE j \in DOMAIN column :
                    /\ column[j] = column[i]
                    /\ \A m \in DOMAIN column : column[m] = column[i] => j <= m
  IN [i \in DOMAIN column |->
        Cardinality({column[m] : m \in {q \in DOMAIN column : q < first(i)}})]

LabelEncoderFitTransform(dt, column) ==
  LET keys == {SortKey(dt, column[i]) : i \in DOMAIN column}
      classes == SortedInts(keys)
  IN [i \in DOMAIN column |-> IndexOf(classes, SortKey(dt, column[i])) - 1]

(***************************************************************************)
(* numpy's legacy RandomState (MT19937).  A generator is [seed, pos, ints]: *)
(* the seed it was created with, the number of permutation(n) calls it has *)
(* served and the number of randint(2^31 - 1) draws it has served after    *)
(* them.  PermutationTable[seed + 1][pos + 1][n] is the array that         *)
(* RandomState(seed) returns from its (pos + 1)-th call of permutation(n); *)
(* PermutationAfterRandint[seed + 1][pos + 1][n] is the array it returns   *)
(* from permutation(n) after pos calls of permutation(n) and one randint.  *)
(***************************************************************************)
PermutationTable ==
  << <<
    <<<<0>>,
      <<1, 0>>,
      <<2, 1, 0>>,
      <<2, 3, 1, 0>>,
      <<2, 0, 1, 3, 4>>,
      <<5, 2, 1, 3, 0, 4>>,
      <<6, 2, 1, 3, 0, 5, 4>>,
      <<6, 2, 1, 7, 3, 0, 5, 4>>>>,
    <<<<0>>,
      <<0, 1>>,
      <<2, 0, 1>>,
      <<0, 2, 1, 3>>,
      <<0, 2, 1, 4, 3>>,
      <<1, 3, 4, 0, 2, 5>>,
      <<1, 0, 6, 3, 4, 2, 5>>,
      <<1, 6, 3, 7, 0, 4, 2, 5>>>>,
    <<<<0>>,
      <<0, 1>>,
      <<0, 2, 1>>,
      <<3, 0, 2, 1>>,
      <<1, 3, 4, 0, 2>>,
      <<3, 5, 1, 2, 4, 0>>,
      <<6, 3, 5, 1, 2, 4, 0>>,
      <<5, 2, 3, 4, 7, 0, 6, 1>>>> >>,
  <<
    <<<<0>>,
      <<0, 1>>,
      <<0, 2, 1>>,
      <<3, 2, 0, 1>>,
      <<2, 1, 4, 0, 3>>,
      <<2, 1, 4, 0, 3, 5>>,
      <<6, 2, 1, 0, 4, 3, 5>>,
      <<7, 2, 1, 6, 0, 4, 3, 5>>>>,
    <<<<0>>,
      <<0, 1>>,
      <<1, 2, 0>>,
      <<0, 2, 1, 3>>,
      <<0, 2, 4, 3, 1>>,
      <<4, 2, 0, 5, 3, 1>>,
      <<2, 3, 4, 1, 6, 0, 5>>,
      <<2, 3, 4, 7, 1, 6, 0, 5>>>>,
    <<<<0>>,
      <<1, 0>>,
      <<0, 2, 1>>,
      <<3, 2, 0, 1>>,
      <<2, 3, 1, 4, 0>>,
      <<2, 0, 5, 3, 4, 1>>,
      <<6, 3, 0, 2, 1, 4, 5>>,
      <<3, 0, 7, 5, 4, 2, 1, 6>>>> >> >>

PermutationAfterRandint ==
  << <<
    <<<<0>>,
      <<0, 1>>,
      <<2, 0, 1>>,
      <<2, 0, 1, 3>>,
      <<4, 2, 1, 3, 0>>,
      <<4, 2, 1, 3, 0, 5>>,
      <<6, 2, 1, 4, 3, 0, 5>>,
      <<6, 2, 1, 4, 3, 0, 5, 7>>>>,
    <<<<0>>,
      <<0, 1>>,
      <<2, 1, 0>>,
      <<0, 2, 1, 3>>,
      <<0, 2, 1, 4, 3>>,
      <<1, 0, 5, 3, 4, 2>>,
      <<1, 6, 3, 5, 0, 4, 2>>,
      <<3, 1, 7, 6, 5, 0, 4, 2>>>>,
    <<<<0>>,
      <<1, 0>>,
      <<0, 2, 1>>,
      <<3, 1, 0, 2>>,
      <<1, 3, 4, 0, 2>>,
      <<0, 3, 5, 1, 2, 4>>,
      <<6, 0, 3, 5, 1, 2, 4>>,
      <<5, 2, 3, 4, 1, 0, 7, 6>>>> >>,
  <<
    <<<<0>>,
      <<0, 1>>,
      <<1, 2, 0>>,
      <<1, 2, 0, 3>>,
      <<2, 1, 4, 0, 3>>,
      <<5, 2, 1, 0, 4, 3>>,
      <<5, 2, 1, 6, 0, 4, 3>>,
      <<5, 2, 6, 7, 1, 0, 4, 3>>>>,
    <<<<0>>,
      <<1, 0>>,
      <<2, 1, 0>>,
      <<0, 2, 3, 1>>,
      <<4, 2, 0, 1, 3>>,
      <<2, 5, 1, 4, 0, 3>>,
      <<2, 3, 4, 5, 1, 6, 0>>,
      <<2, 3, 4, 5, 1, 6, 0, 7>>>>,
    <<<<0>>,
      <<1, 0>>,
      <<0, 2, 1>>,
      <<1, 2, 0, 3>>,
      <<2, 3, 4, 1, 0>>,
      <<3, 0, 1, 2, 5, 4>>,
      <<3, 5, 6, 0, 2, 1, 4>>,
      <<7, 5, 3, 0, 6, 4, 2, 1>>>> >> >>

\* the seeds the operating system's entropy may give the global generator
EntropySeeds == {0, 1}

\* np.random.RandomState(seed): a fresh generator
RandomState(seed) == [seed |-> seed, pos |-> 0, ints |-> 0]

\* rng.permutation(n)
Permutation(rng, n) ==
  IF rng.ints = 0 THEN PermutationTable[rng.seed + 1][rng.pos + 1][n]
  ELSE PermutationAfterRandint[rng.seed + 1][rng.pos + 1][n]

\* the generator after one call of permutation
Advanced(rng) == [rng EXCEPT !.pos = rng.pos + 1]

\* the generator after one call of randint(np.iinfo('i').max): one 32-bit
\* word is drawn
AdvancedRandint(rng) == [rng EXCEPT !.ints = rng.ints + 1]

(***************************************************************************)
(* sklearn.model_selection.train_test_split(X, y, test_size, random_state) *)
(***************************************************************************)
\* ceil(test_size * n_samples).  The product is a double; for the test sizes
\* 0.2 and 0.25 its ceiling is the ceiling of the exact product (0.25 is a
\* binary fraction, and the double nearest to n * 0.2 is n/5 when 5 divides n).
\* (a plausible slip: the product is cut off, int(test_size * n_samples))
NTestFloor(test_size, n) == (n * test_size[1]) \div test_size[2]

NTest(test_size, n) == (n * test_size[1] + test_size[2] - 1) \div test_size[2]

\* train_size is None: the complement of the test partition
NTrain(test_size, n) == n - NTest(test_size, n)

\* an integer random_state seeds a new generator at every call
\* (a plausible slip, random_state left out, takes numpy's global generator)
check_random_state_global(random_state) == np_random

check_random_state(random_state) == RandomState(random_state)

\* ShuffleSplit._iter_indices: the first n_test entries of the permutation are
\* the test rows, the next n_train entries the train rows
\* (a plausible slip: the train slice starts one entry early)
ShuffleSplitOverlap(rng, n, n_test, n_train) ==
  LET permutation == Permutation(rng, n)
  IN [test |-> SubSeq(permutation, 1, n_test),
      train |-> SubSeq(permutation, n_test, n_test + n_train)]

ShuffleSplit(rng, n, n_test, n_train) ==
  LET permutation == Permutation(rng, n)
  IN [test |-> SubSeq(permutation, 1, n_test),
      train |-> SubSeq(permutation, n_test + 1, n_test + n_train)]

\* the index arrays train_test_split indexes every array with
SplitIndices(n, test_size, random_state) ==
  ShuffleSplit(check_random_state(random_state), n,
               NTest(test_size, n), NTrain(test_size, n))

\* _safe_indexing of a frame: the rows idx of the columns cols
TakeX(split, cols, idx) == [split |-> split, cols |-> cols, idx |-> idx]

\* _safe_indexing of a response column: the rows idx with their values
TakeY(split, col, column, idx) ==
  [split |-> split, col |-> col, idx |-> idx,
   vals |-> [k \in 1..Len(idx) |-> column[idx[k]]]]

(***************************************************************************)
(* Control: the cells of the notebook and the statements of the R script,  *)
(* in the order of the file.                                               *)
(***************************************************************************)
\* (a plausible slip: the forest is fitted before the train-set GLM)
NotebookCellsForestFirst ==
  <<"read_csv", "sample", "objcols", "catcols", "overlap", "empattr_obj",
    "numerical_cols", "glm_full", "predictors", "split1", "merge", "forest_fit",
    "glm_train", "fitted_recoded", "predict_test", "threshold_test",
    "forest_score", "forest_cm", "forest_acc", "copy", "drop", "encode",
    "newPreds", "split2", "newmodel_fit", "newmodel_score", "preds", "new_acc">>

\* (a plausible slip: the cell of the forest's accuracy is run after the
\* second split)
NotebookCellsLateAccuracy ==
  <<"read_csv", "sample", "objcols", "catcols", "overlap", "empattr_obj",
    "numerical_cols", "glm_full", "predictors", "split1", "merge", "glm_train",
    "fitted_recoded", "predict_test", "threshold_test", "forest_fit",
    "forest_score", "forest_cm", "copy", "drop", "encode", "newPreds",
    "split2", "forest_acc", "newmodel_fit", "newmodel_score", "preds",
    "new_acc">>

NotebookCells ==
  <<"read_csv", "sample", "objcols", "catcols", "overlap", "empattr_obj",
    "numerical_cols", "glm_full", "predictors", "split1", "merge", "glm_train",
    "fitted_recoded", "predict_test", "threshold_test", "forest_fit",
    "forest_score", "forest_cm", "forest_acc", "copy", "drop", "encode",
    "newPreds", "split2", "newmodel_fit", "newmodel_score", "preds", "new_acc">>

RStatements ==
  <<"r_read_csv", "r_copy", "r_recode", "r_glm", "r_fitted", "r_assign",
    "r_compare", "r_accuracy">>

\* the pipeline stage a cell belongs to ("" for a cell of no stage)
StageOf(cell) ==
  CASE cell \in {"read_csv", "sample"} -> "Loader"
    [] cell \in {"objcols", "catcols", "overlap", "empattr_obj", "numerical_cols"}
         -> "Classifier"
    [] cell \in {"copy", "drop", "encode"} -> "Encoder"
    [] cell \in {"split1", "split2"} -> "Splitter"
    [] cell \in {"glm_full", "glm_train", "forest_fit", "newmodel_fit"} -> "Fitter"
    [] cell \in {"fitted_recoded", "predict_test", "threshold_test",
                 "forest_score", "forest_cm", "forest_acc", "newmodel_score",
                 "preds", "new_acc"} -> "Evaluator"
    [] OTHER -> ""

Program(p) == IF p = "notebook" THEN NotebookCells ELSE RStatements

\* the cell after cell, "end" after the last one
After(p, cell) ==
  LET cells == Program(p)
      i == IndexOf(cells, cell)
  IN IF i = Len(cells) THEN "end" ELSE cells[i + 1]

\* the stage log after cell has run
Logged(log, cell) ==
  LET st == StageOf(cell)
  IN IF st = "" \/ (Len(log) > 0 /\ log[Len(log)] = st) THEN log
     ELSE Append(log, st)

\* cell is the one to run
At(cell) == status = "running" /\ pc = cell

\* the partitions cell reads: the objects bound to the names it mentions
ReadXY(cell) ==
  CASE cell \in {"merge", "forest_fit", "forest_score", "newmodel_fit",
                 "newmodel_score"} -> <<xtrain, ytrain>>
    [] cell \in {"forest_cm", "preds"} -> <<xtest, ytest>>
    [] cell \in {"predict_test", "forest_acc"} -> <<xtest>>
    [] cell = "glm_train" -> <<xtrain2>>
    \* with the cell that displays Counter(ytrain['Attrition'].to_list())
    [] cell = "fitted_recoded" -> <<xtrain2, ytrain>>
    \* with the cell that displays Counter(ytest['Attrition'].to_list())
    [] cell = "threshold_test" -> <<ytest>>
    [] OTHER -> <<>>

\* the log of partition reads after cell has run
Used(log, cell) ==
  IF ReadXY(cell) = <<>> THEN log
  ELSE log \cup {[cell |-> cell, read |-> ReadXY(cell)]}

\* cell ran to its end: go on with the next one
Completes(cell) ==
  /\ pc' = After(program, cell)
  /\ status' = IF After(program, cell) = "end" THEN "done" ELSE "running"
  /\ err' = err
  /\ stages' = Logged(stages, cell)
  /\ useLog' = Used(useLog, cell)
  /\ UNCHANGED <<program, csv, run>>

\* cell raised e, which nothing catches: the run stops there
Raises(cell, e) ==
  /\ pc' = pc
  /\ status' = "error"
  /\ err' = e
  /\ stages' = Logged(stages, cell)
  /\ useLog' = Used(useLog, cell)
  /\ UNCHANGED <<program, csv, run>>

(***************************************************************************)
(* Values of names that are not bound yet.                                 *)
(***************************************************************************)
NoFrame == [cols |-> <<>>, n |-> 0, dtype |-> <<>>, data |-> <<>>]
NoX == [split |-> 0, cols |-> <<>>, idx |-> <<>>]
NoY == [split |-> 0, col |-> "", idx |-> <<>>, vals |-> <<>>]
NoGlm == [fitted |-> FALSE, intercept |-> 0, slope |-> 0]
NoClassifier == [fitted |-> FALSE, classes |-> <<>>]
NoSplit == [train |-> <<>>, test |-> <<>>]
NoRatio == <<0, 0>>

(***************************************************************************)
(* The fitted models.  A binomial GLM is its linear predictor; the model   *)
(* keeps the intercept and the coefficient of Age (taken from its lowest   *)
(* value) and draws them from a small set, the other coefficients are 0.   *)
(***************************************************************************)
Intercepts == {-3, 0, 1}
Slopes == {0, 1}

GlmFits == [fitted : {TRUE}, intercept : Intercepts, slope : Slopes]

\* the inverse logit, in percent
Logistic(eta) ==
  CASE eta <= -5 -> 1
    [] eta = -4 -> 2
    [] eta = -3 -> 5
    [] eta = -2 -> 12
    [] eta = -1 -> 27
    [] eta = 0 -> 50
    [] eta = 1 -> 73
    [] eta = 2 -> 88
    [] eta = 3 -> 95
    [] eta = 4 -> 98
    [] OTHER -> 99

\* the fitted probability of the first response level for a row of age age
GlmPredict(model, age) == Logistic(model.intercept + model.slope * (age - 18))

\* the classes a classifier learns: the sorted distinct labels of y
ClassesOf(dt, y) ==
  LET keys == {SortKey(dt, y[k]) : k \in DOMAIN y}
      sorted == SortedInts(keys)
  IN [i \in 1..Len(sorted) |->
        CHOOSE v \in {y[k] : k \in DOMAIN y} : SortKey(dt, v) = sorted[i]]

\* sklearn.metrics.confusion_matrix(y_true, y_pred): the labels are the sorted
\* distinct values of both arrays, entry [i][j] counts the rows whose true
\* label is the i-th and whose predicted label is the j-th label
\* (a plausible slip: rows whose two labels are equal are counted twice)
confusion_matrix_double(dt, y_true, y_pred) ==
  LET labels == ClassesOf(dt, y_true \o y_pred)
  IN [i \in 1..Len(labels) |-> [j \in 1..Len(labels) |->
        Cardinality({k \in 1..Len(y_true) :
                       y_true[k] = labels[i] /\ y_pred[k] = labels[j]})
        * (IF i = j THEN 2 ELSE 1)]]

confusion_matrix(dt, y_true, y_pred) ==
  LET labels == ClassesOf(dt, y_true \o y_pred)
  IN [i \in 1..Len(labels) |-> [j \in 1..Len(labels) |->
        Cardinality({k \in 1..Len(y_true) :
                       y_true[k] = labels[i] /\ y_pred[k] = labels[j]})]]

RECURSIVE SumSeq(_)
SumSeq(s) == IF Len(s) = 0 THEN 0 ELSE s[1] + SumSeq(Tail(s))

(***************************************************************************)
(* Initial state: the program, its input file and the entropy that seeds   *)
(* numpy's global generator are chosen; no name is bound.                  *)
(***************************************************************************)
Unbound ==
  /\ heap = <<>>
  /\ empattr = 0
  /\ objcols = <<>> /\ catcols = <<>> /\ out_overlap = {} /\ empattr_obj = <<>>
  /\ empattr_numerical_cols = {}
  /\ result = FALSE /\ predictors = <<>> /\ response = <<>>
  /\ xtrain = NoX /\ xtest = NoX /\ ytrain = NoY /\ ytest = NoY
  /\ xtrain2 = NoX /\ smf_model_train_result = NoGlm
  /\ fitted_xtrain2_recoded = <<>>
  /\ predictions_test = <<>> /\ predictions_results = <<>>
  /\ predictions_results_recoded = <<>>
  /\ attr_forest = NoClassifier /\ forest_pred = <<>> /\ attr_forest_CM = <<>>
  /\ fm_test_acc = NoRatio
  /\ newdf = 0 /\ recodecols = <<>> /\ newPreds = <<>> /\ newY = <<>>
  /\ newmodel = NoClassifier /\ preds = <<>> /\ recodedpreds = <<>>
  /\ new_acc = NoRatio
  /\ dataset = NoFrame /\ dataset2 = NoFrame /\ model1 = NoGlm /\ results = <<>>
  /\ recoded_fitted = <<>> /\ tempor = <<>> /\ r_acc = NoRatio

Init ==
  /\ program \in {"notebook", "rscript"}
  /\ csv \in CsvFiles
  /\ run = 1
  \* the first kernel's generator starts from one entropy value, a restarted
  \* kernel draws any of EntropySeeds
  /\ np_random = RandomState(0)
  /\ splitLog = <<[entropy |-> np_random.seed, s1 |-> NoSplit, s2 |-> NoSplit]>>
  /\ pc = Program(program)[1]
  /\ status = "running"
  /\ err = ""
  /\ stages = <<>>
  /\ useLog = {}
  /\ Unbound

(***************************************************************************)
(* The notebook, cell by cell.                                             *)
(***************************************************************************)
\* empattr = pd.read_csv(...)
ReadCsv ==
  /\ program = "notebook" /\ At("read_csv")
  /\ heap' = Append(heap, read_csv(csv))
  /\ empattr' = Len(heap) + 1
  /\ Completes("read_csv")
  /\ UNCHANGED <<splitLog, np_random, classVars, splitVars, glmVars, forestVars,
                 newVars, rVars>>

\* empattr.sample(3): draws from numpy's global generator; a table of fewer
\* than 3 rows cannot be sampled without replacement
Sample ==
  /\ At("sample")
  /\ IF heap[empattr].n < SampleSize
     THEN Raises("sample", "ValueError") /\ np_random' = np_random
     ELSE Completes("sample") /\ np_random' = Advanced(np_random)
  /\ UNCHANGED <<splitLog, heap, empattr, classVars, splitVars, glmVars,
                 forestVars, newVars, rVars>>

\* objcols = [c for c in empattr.columns if empattr[c].dtype == 'O']
ObjectColumns(fr) == SelectSeq(fr.cols, LAMBDA c : fr.dtype[c] = "O")

FindObjcols ==
  /\ At("objcols")
  /\ objcols' = ObjectColumns(heap[empattr])
  /\ Completes("objcols")
  /\ UNCHANGED <<splitLog, np_random, heap, empattr, catcols, out_overlap,
                 empattr_obj, empattr_numerical_cols, splitVars, glmVars,
                 forestVars, newVars, rVars>>

\* catcols = [...]
DeclaredCatcols ==
  <<"Education", "EnvironmentSatisfaction", "JobInvolvement", "JobSatisfaction",
    "PerformanceRating", "RelationshipSatisfaction", "WorkLifeBalance">>

SetCatcols ==
  /\ At("catcols")
  /\ catcols' = DeclaredCatcols
  /\ Completes("catcols")
  /\ UNCHANGED <<splitLog, np_random, heap, empattr, objcols, out_overlap,
                 empattr_obj, empattr_numerical_cols, splitVars, glmVars,
                 forestVars, newVars, rVars>>

\* set(objcols).intersection(set(catcols)): the value of the cell's last
\* expression is displayed and nothing else is done with it
ShowOverlap ==
  /\ At("overlap")
  /\ out_overlap' = Range(objcols) \cap Range(catcols)
  /\ Completes("overlap")
  /\ UNCHANGED <<splitLog, np_random, heap, empattr, objcols, catcols,
                 empattr_obj, empattr_numerical_cols, splitVars, glmVars,
                 forestVars, newVars, rVars>>

\* empattr_obj = empattr[objcols + catcols].astype(object)
DescribeObjects ==
  /\ At("empattr_obj")
  /\ empattr_obj' = objcols \o catcols
  /\ Completes("empattr_obj")
  /\ UNCHANGED <<splitLog, np_random, heap, empattr, objcols, catcols,
                 out_overlap, empattr_numerical_cols, splitVars, glmVars,
                 forestVars, newVars, rVars>>

\* list(set(empattr.columns.tolist()).difference(set(objcols + catcols)))
\* (a plausible slip: only the object-typed columns are taken out)
NumericalColumnsObjOnly(fr, obj, cat) == Range(fr.cols) \ Range(obj)

NumericalColumns(fr, obj, cat) == Range(fr.cols) \ Range(obj \o cat)

FindNumericalCols ==
  /\ At("numerical_cols")
  /\ empattr_numerical_cols' = NumericalColumns(heap[empattr], objcols, catcols)
  /\ Completes("numerical_cols")
  /\ UNCHANGED <<splitLog, np_random, heap, empattr, objcols, catcols,
                 out_overlap, empattr_obj, splitVars, glmVars, forestVars,
                 newVars, rVars>>

\* smf.glm(formula = modelformula, data = empattr, ...).fit(): the fit is
\* external; on ill-conditioned data it raises, and nothing catches it
FitGlmFull ==
  /\ At("glm_full")
  /\ \/ /\ result' = TRUE
        /\ Completes("glm_full")
     \/ /\ result' = result
        /\ Raises("glm_full", "LinAlgError")
  /\ UNCHANGED <<splitLog, np_random, heap, empattr, classVars, splitVars,
                 predictors, response, xtrain2, smf_model_train_result,
                 fitted_xtrain2_recoded, predictions_test, predictions_results,
                 predictions_results_recoded, forestVars, newVars, rVars>>

\* predictors = empattr[['Age', 'YearsSinceLastPromotion', 'DistanceFromHome']]
\* response = empattr[['Attrition']]
SelectPredictors ==
  /\ At("predictors")
  /\ predictors' = <<"Age", "YearsSinceLastPromotion", "DistanceFromHome">>
  /\ response' = <<"Attrition">>
  /\ Completes("predictors")
  /\ UNCHANGED <<splitLog, np_random, heap, empattr, classVars, splitVars,
                 result, xtrain2, smf_model_train_result,
                 fitted_xtrain2_recoded, predictions_test, predictions_results,
                 predictions_results_recoded, forestVars, newVars, rVars>>

\* xtrain, xtest, ytrain, ytest =
\*   train_test_split(predictors, response, test_size = 0.2, random_state = 0)
Split1 ==
  /\ At("split1")
  /\ LET fr == heap[empattr]
         ix == SplitIndices(fr.n, TestSize1, SplitSeed)
     IN IF NTrain(TestSize1, fr.n) = 0
        THEN /\ Raises("split1", "ValueError")
             /\ UNCHANGED <<splitVars, splitLog>>
        ELSE /\ xtrain' = TakeX(1, predictors, ix.train)
             /\ xtest' = TakeX(1, predictors, ix.test)
             /\ ytrain' = TakeY(1, response[1], fr.data[response[1]], ix.train)
             /\ ytest' = TakeY(1, response[1], fr.data[response[1]], ix.test)
             /\ splitLog' = [splitLog EXCEPT ![run].s1 = ix]
             /\ Completes("split1")
  /\ UNCHANGED <<np_random, heap, empattr, classVars, glmVars, forestVars,
                 newVars, rVars>>

\* xtrain2 = xtrain.merge(ytrain, left_index = True, right_index = True)
Merge ==
  /\ At("merge")
  /\ xtrain2' = TakeX(xtrain.split, xtrain.cols \o <<ytrain.col>>,
                      SelectSeq(xtrain.idx, LAMBDA i : SeqContains(ytrain.idx, i)))
  /\ Completes("merge")
  /\ UNCHANGED <<splitLog, np_random, heap, empattr, classVars, splitVars,
                 result, predictors, response, smf_model_train_result,
                 fitted_xtrain2_recoded, predictions_test, predictions_results,
                 predictions_results_recoded, forestVars, newVars, rVars>>

\* smf_model_train = smf.glm(formula = modelformula, data = xtrain2, ...)
\* smf_model_train_result = smf_model_train.fit()
FitGlmTrain ==
  /\ At("glm_train")
  /\ \/ /\ smf_model_train_result' \in GlmFits
        /\ Completes("glm_train")
     \/ /\ smf_model_train_result' = smf_model_train_result
        /\ Raises("glm_train", "LinAlgError")
  /\ UNCHANGED <<splitLog, np_random, heap, empattr, classVars, splitVars,
                 result, predictors, response, xtrain2,
                 fitted_xtrain2_recoded, predictions_test, predictions_results,
                 predictions_results_recoded, forestVars, newVars, rVars>>

\* the fitted probabilities of the rows idx, read from their Age
GlmPredictRows(model, fr, idx) ==
  [k \in 1..Len(idx) |-> GlmPredict(model, fr.data["Age"][idx[k]])]

\* lambda x: 0 if x > 0.5 else 1
\* (a plausible slip: the two codes are exchanged)
NotebookRecodeSwapped(x) == IF x > th THEN 1 ELSE 0

\* (a plausible slip: a probability equal to the threshold gets 0)
NotebookRecodeGe(x) == IF x >= th THEN 0 ELSE 1

NotebookRecode(x) == IF x > th THEN 0 ELSE 1

\* fitted_xtrain2 = smf_model_train_result.fittedvalues
\* fitted_xtrain2_recoded = fitted_xtrain2.apply(lambda x: 0 if x > 0.5 else 1)
RecodeFitted ==
  /\ At("fitted_recoded")
  /\ LET fitted_xtrain2 ==
           GlmPredictRows(smf_model_train_result, heap[empattr], xtrain2.idx)
     IN fitted_xtrain2_recoded' =
          [k \in 1..Len(fitted_xtrain2) |-> NotebookRecode(fitted_xtrain2[k])]
  /\ Completes("fitted_recoded")
  /\ UNCHANGED <<splitLog, np_random, heap, empattr, classVars, splitVars,
                 result, predictors, response, xtrain2, smf_model_train_result,
                 predictions_test, predictions_results,
                 predictions_results_recoded, forestVars, newVars, rVars>>

\* predictions_test = smf_model_train_result.predict(xtest)
PredictTest ==
  /\ At("predict_test")
  /\ predictions_test' =
       GlmPredictRows(smf_model_train_result, heap[empattr], xtest.idx)
  /\ Completes("predict_test")
  /\ UNCHANGED <<splitLog, np_random, heap, empattr, classVars, splitVars,
                 result, predictors, response, xtrain2, smf_model_train_result,
                 fitted_xtrain2_recoded, predictions_results,
                 predictions_results_recoded, forestVars, newVars, rVars>>

\* lambda x: 'No' if x == 0 else 'Yes'
NotebookLabel(x) == IF x = 0 THEN "No" ELSE "Yes"

\* predictions_results = predictions_test.apply(lambda x: 0 if x > th else 1)
\* predictions_results_recoded =
\*   predictions_results.apply(lambda x: 'No' if x == 0 else 'Yes')
ThresholdTest ==
  /\ At("threshold_test")
  /\ LET res == [k \in 1..Len(predictions_test) |->
                   NotebookRecode(predictions_test[k])]
     IN /\ predictions_results' = res
        /\ predictions_results_recoded' =
             [k \in 1..Len(res) |-> NotebookLabel(res[k])]
  /\ Completes("threshold_test")
  /\ UNCHANGED <<splitLog, np_random, heap, empattr, classVars, splitVars,
                 result, predictors, response, xtrain2, smf_model_train_result,
                 fitted_xtrain2_recoded, predictions_test, forestVars, newVars,
                 rVars>>

\* attr_forest = RandomForestClassifier(...); attr_forest.fit(xtrain, ytrain...)
FitForest ==
  /\ At("forest_fit")
  /\ attr_forest' = [fitted |-> TRUE, classes |-> ClassesOf("O", ytrain.vals)]
  /\ Completes("forest_fit")
  /\ UNCHANGED <<splitLog, np_random, heap, empattr, classVars, splitVars,
                 glmVars, forest_pred, attr_forest_CM, fm_test_acc, newVars,
                 rVars>>

\* attr_forest.score(xtrain, ytrain): the value is displayed, no name is bound
ForestScore ==
  /\ At("forest_score")
  /\ attr_forest.fitted
  /\ Completes("forest_score")
  /\ UNCHANGED <<splitLog, np_random, heap, empattr, classVars, splitVars,
                 glmVars, forestVars, newVars, rVars>>

\* attr_forest_CM = confusion_matrix(ytest, attr_forest.predict(xtest)):
\* the forest predicts one of its classes for every row of xtest
ForestConfusion ==
  /\ At("forest_cm")
  /\ \E p \in [1..Len(xtest.idx) -> Range(attr_forest.classes)] :
       /\ forest_pred' = p
       /\ attr_forest_CM' = confusion_matrix("O", ytest.vals, p)
  /\ Completes("forest_cm")
  /\ UNCHANGED <<splitLog, np_random, heap, empattr, classVars, splitVars,
                 glmVars, attr_forest, fm_test_acc, newVars, rVars>>

\* tp = attr_forest_CM[1,1]; tn = attr_forest_CM[0,0]
\* fm_test_acc = (tp + tn)/xtest.shape[0]
\* (a plausible slip: the false positives are taken for the true positives)
ForestAccuracyFP(CM, x) == <<CM[1][2] + CM[1][1], Len(x.idx)>>

ForestAccuracy(CM, x) == <<CM[2][2] + CM[1][1], Len(x.idx)>>

ForestAcc ==
  /\ At("forest_acc")
  /\ IF Len(attr_forest_CM) < 2
     THEN Raises("forest_acc", "IndexError") /\ fm_test_acc' = fm_test_acc
     ELSE Completes("forest_acc")
          /\ fm_test_acc' = ForestAccuracy(attr_forest_CM, xtest)
  /\ UNCHANGED <<splitLog, np_random, heap, empattr, classVars, splitVars,
                 glmVars, attr_forest, forest_pred, attr_forest_CM, newVars,
                 rVars>>

(***************************************************************************)
(* The logistic regression over almost all columns.                        *)
(***************************************************************************)
\* newdf = empattr.copy(): a new object with the same columns and values
CopyFrame ==
  /\ At("copy")
  /\ heap' = Append(heap, heap[empattr])
  /\ newdf' = Len(heap) + 1
  /\ Completes("copy")
  /\ UNCHANGED <<splitLog, np_random, empattr, classVars, splitVars, glmVars,
                 forestVars, recodecols, newPreds, newY, newmodel, preds,
                 recodedpreds, new_acc, rVars>>

\* newdf = newdf.drop(columns = ['EmployeeCount','StandardHours']): drop
\* returns a new object, to which the name is bound
DropConstants ==
  /\ At("drop")
  /\ heap' = Append(heap, FrameDrop(heap[newdf], {"EmployeeCount", "StandardHours"}))
  /\ newdf' = Len(heap) + 1
  /\ Completes("drop")
  /\ UNCHANGED <<splitLog, np_random, empattr, classVars, splitVars, glmVars,
                 forestVars, recodecols, newPreds, newY, newmodel, preds,
                 recodedpreds, new_acc, rVars>>

\* newdf[c] = LabelEncoder().fit_transform(newdf[c]): the object newdf names
\* is changed in place
\* (a plausible slip: the encoded column is assigned into empattr)
EncodeIntoLoaded(h, df, c) ==
  [h EXCEPT ![empattr] =
     FrameSetColumn(h[empattr], c,
                    LabelEncoderFitTransform(h[df].dtype[c], h[df].data[c]),
                    "int64")]

EncodeColumn(h, df, c) ==
  [h EXCEPT ![df] =
     FrameSetColumn(h[df], c,
                    LabelEncoderFitTransform(h[df].dtype[c], h[df].data[c]),
                    "int64")]

\* for c in recodecols: newdf[c] = LabelEncoder().fit_transform(newdf[c])
RECURSIVE EncodeAll(_, _, _)
EncodeAll(h, df, cs) ==
  IF Len(cs) = 0 THEN h
  ELSE EncodeAll(EncodeColumn(h, df, Head(cs)), df, Tail(cs))

\* recodecols = catcols + objcols, then the loop
Encode ==
  /\ At("encode")
  /\ recodecols' = catcols \o objcols
  /\ heap' = EncodeAll(heap, newdf, catcols \o objcols)
  /\ Completes("encode")
  /\ UNCHANGED <<splitLog, np_random, empattr, classVars, splitVars, glmVars,
                 forestVars, newdf, newPreds, newY, newmodel, preds,
                 recodedpreds, new_acc, rVars>>

\* newdf.columns != 'Attrition': the columns that iloc keeps
\* (a plausible slip: the mask keeps every column)
PredictorColumnsAll(fr) == fr.cols

PredictorColumns(fr) == SeqWithout(fr.cols, {"Attrition"})

\* newPreds = newdf.iloc[:, newdf.columns != 'Attrition']
\* newY = newdf['Attrition']
SelectNewPreds ==
  /\ At("newPreds")
  /\ newPreds' = PredictorColumns(heap[newdf])
  /\ newY' = heap[newdf].data["Attrition"]
  /\ Completes("newPreds")
  /\ UNCHANGED <<splitLog, np_random, heap, empattr, classVars, splitVars,
                 glmVars, forestVars, newdf, recodecols, newmodel, preds,
                 recodedpreds, new_acc, rVars>>

\* xtrain, xtest, ytrain, ytest =
\*   train_test_split(newPreds, newY, test_size = 0.25, random_state = 0)
Split2 ==
  /\ At("split2")
  /\ LET n == heap[newdf].n
         ix == SplitIndices(n, TestSize2, SplitSeed)
     IN IF NTrain(TestSize2, n) = 0
        THEN /\ Raises("split2", "ValueError")
             /\ UNCHANGED <<splitVars, splitLog>>
        ELSE /\ xtrain' = TakeX(2, newPreds, ix.train)
             /\ xtest' = TakeX(2, newPreds, ix.test)
             /\ ytrain' = TakeY(2, "Attrition", newY, ix.train)
             /\ ytest' = TakeY(2, "Attrition", newY, ix.test)
             /\ splitLog' = [splitLog EXCEPT ![run].s2 = ix]
             /\ Completes("split2")
  /\ UNCHANGED <<np_random, heap, empattr, classVars, glmVars, forestVars,
                 newVars, rVars>>

\* newmodel = LogisticRegression(penalty = 'l1', solver = 'liblinear')
\* newmodel.fit(xtrain, ytrain): liblinear needs two classes in ytrain; with
\* random_state = None the solver's seed is one randint drawn from numpy's
\* global generator, after the classes have been checked
FitNewModel ==
  /\ At("newmodel_fit")
  /\ LET classes == ClassesOf("int64", ytrain.vals)
     IN IF Len(classes) < 2
        THEN /\ Raises("newmodel_fit", "ValueError")
             /\ newmodel' = newmodel
             /\ np_random' = np_random
        ELSE /\ Completes("newmodel_fit")
             /\ newmodel' = [fitted |-> TRUE, classes |-> classes]
             /\ np_random' = AdvancedRandint(np_random)
  /\ UNCHANGED <<splitLog, heap, empattr, classVars, splitVars,
                 glmVars, forestVars, newdf, recodecols, newPreds, newY, preds,
                 recodedpreds, new_acc, rVars>>

\* newmodel.score(xtrain, ytrain): the value is displayed, no name is bound
NewModelScore ==
  /\ At("newmodel_score")
  /\ newmodel.fitted
  /\ Completes("newmodel_score")
  /\ UNCHANGED <<splitLog, np_random, heap, empattr, classVars, splitVars,
                 glmVars, forestVars, newVars, rVars>>

\* preds = newmodel.predict(xtest) == ytest
\* recodedpreds = preds.apply(lambda x: 1 if x else 0)
PredictNew ==
  /\ At("preds")
  /\ \E p \in [1..Len(xtest.idx) -> Range(newmodel.classes)] :
       LET eq == [k \in 1..Len(p) |-> p[k] = ytest.vals[k]]
       IN /\ preds' = eq
          /\ recodedpreds' = [k \in 1..Len(eq) |-> IF eq[k] THEN 1 ELSE 0]
  /\ Completes("preds")
  /\ UNCHANGED <<splitLog, np_random, heap, empattr, classVars, splitVars,
                 glmVars, forestVars, newdf, recodecols, newPreds, newY,
                 newmodel, new_acc, rVars>>

\* sum(recodedpreds)/len(recodedpreds)
NewAccuracy ==
  /\ At("new_acc")
  /\ new_acc' = <<SumSeq(recodedpreds), Len(recodedpreds)>>
  /\ Completes("new_acc")
  /\ UNCHANGED <<splitLog, np_random, heap, empattr, classVars, splitVars,
                 glmVars, forestVars, newdf, recodecols, newPreds, newY,
                 newmodel, preds, recodedpreds, rVars>>

nbVars == <<heap, empattr, classVars, splitVars, glmVars, forestVars, newVars>>

(***************************************************************************)
(* The R script, statement by statement.  R's data frames are values: an   *)
(* assignment to a frame changes the frame of that name only.              *)
(***************************************************************************)
\* a frame with one more column
FrameAddColumn(fr, c, values, dt) ==
  [cols |-> Append(fr.cols, c),
   n |-> fr.n,
   dtype |-> [d \in Range(fr.cols) \cup {c} |-> IF d = c THEN dt ELSE fr.dtype[d]],
   data |-> [d \in Range(fr.cols) \cup {c} |-> IF d = c THEN values ELSE fr.data[d]]]

\* dataset <- read_csv(...)
RReadCsv ==
  /\ At("r_read_csv")
  /\ dataset' = read_csv(csv)
  /\ Completes("r_read_csv")
  /\ UNCHANGED <<splitLog, np_random, nbVars, dataset2, model1, results,
                 recoded_fitted, tempor, r_acc>>

\* dataset2 <- dataset
RCopy ==
  /\ At("r_copy")
  /\ dataset2' = dataset
  /\ Completes("r_copy")
  /\ UNCHANGED <<splitLog, np_random, nbVars, dataset, model1, results,
                 recoded_fitted, tempor, r_acc>>

\* recode_y <- function(x) ifelse(x == "No", 1, 0)
recode_y(x) == IF x = "No" THEN 1 ELSE 0

\* dataset2['Attrition2'] <- sapply(dataset2['Attrition'], recode_y)
Recoded(d, d2) ==
  [dataset |-> d,
   dataset2 |-> FrameAddColumn(d2, "Attrition2",
                  [i \in DOMAIN d2.data["Attrition"] |->
                     recode_y(d2.data["Attrition"][i])], "int64")]

RRecode ==
  /\ At("r_recode")
  /\ dataset' = Recoded(dataset, dataset2).dataset
  /\ dataset2' = Recoded(dataset, dataset2).dataset2
  /\ Completes("r_recode")
  /\ UNCHANGED <<splitLog, np_random, nbVars, model1, results, recoded_fitted,
                 tempor, r_acc>>

\* model1 <- glm(Attrition2 ~ Age + ..., data = dataset2, family = "binomial")
RFitGlm ==
  /\ At("r_glm")
  /\ model1' \in GlmFits
  /\ Completes("r_glm")
  /\ UNCHANGED <<splitLog, np_random, nbVars, dataset, dataset2, results,
                 recoded_fitted, tempor, r_acc>>

\* results <- fitted(model1)
RFitted ==
  /\ At("r_fitted")
  /\ results' = [k \in 1..dataset2.n |->
                   GlmPredict(model1, dataset2.data["Age"][k - 1])]
  /\ Completes("r_fitted")
  /\ UNCHANGED <<splitLog, np_random, nbVars, dataset, dataset2, model1,
                 recoded_fitted, tempor, r_acc>>

\* assign_label <- function(x, th) ifelse(x > th, 1, 0)
\* (a plausible slip: a probability equal to the threshold gets 1)
assign_label_ge(x, t) == IF x >= t THEN 1 ELSE 0

assign_label(x, t) == IF x > t THEN 1 ELSE 0

\* recoded_fitted <- sapply(results, assign_label, 0.5)
RAssign ==
  /\ At("r_assign")
  /\ recoded_fitted' = [k \in 1..Len(results) |-> assign_label(results[k], RThreshold)]
  /\ Completes("r_assign")
  /\ UNCHANGED <<splitLog, np_random, nbVars, dataset, dataset2, model1,
                 results, tempor, r_acc>>

\* compare_lists <- function(double1, double2): 1 where the two are equal
compare_lists(double1, double2) ==
  [k \in 1..Len(double1) |-> IF double1[k] = double2[k] THEN 1 ELSE 0]

\* tempor = compare_lists(recoded_fitted, dataset2$Attrition2)
RCompare ==
  /\ At("r_compare")
  /\ tempor' = compare_lists(recoded_fitted,
                 [k \in 1..dataset2.n |-> dataset2.data["Attrition2"][k - 1]])
  /\ Completes("r_compare")
  /\ UNCHANGED <<splitLog, np_random, nbVars, dataset, dataset2, model1,
                 results, recoded_fitted, r_acc>>

\* sum(tempor)/length(tempor)
RAccuracy ==
  /\ At("r_accuracy")
  /\ r_acc' = <<SumSeq(tempor), Len(tempor)>>
  /\ Completes("r_accuracy")
  /\ UNCHANGED <<splitLog, np_random, nbVars, dataset, dataset2, model1,
                 results, recoded_fitted, tempor>>

(***************************************************************************)
(* Running the notebook again in a new kernel: every name is unbound, the  *)
(* global generator is seeded afresh, the input file is the same.          *)
(***************************************************************************)
\* determinism compares two runs of the notebook on one input file
Runs == {1, 2}

Restart ==
  /\ program = "notebook"
  /\ status = "done"
  /\ run + 1 \in Runs
  /\ run' = run + 1
  /\ np_random' \in {RandomState(e) : e \in EntropySeeds}
  /\ splitLog' = Append(splitLog, [entropy |-> np_random'.seed, s1 |-> NoSplit, s2 |-> NoSplit])
  /\ pc' = NotebookCells[1]
  /\ status' = "running"
  /\ err' = ""
  /\ stages' = <<>>
  /\ useLog' = {}
  /\ heap' = <<>>
  /\ empattr' = 0
  /\ objcols' = <<>> /\ catcols' = <<>> /\ out_overlap' = {} /\ empattr_obj' = <<>>
  /\ empattr_numerical_cols' = {}
  /\ result' = FALSE /\ predictors' = <<>> /\ response' = <<>>
  /\ xtrain' = NoX /\ xtest' = NoX /\ ytrain' = NoY /\ ytest' = NoY
  /\ xtrain2' = NoX /\ smf_model_train_result' = NoGlm
  /\ fitted_xtrain2_recoded' = <<>>
  /\ predictions_test' = <<>> /\ predictions_results' = <<>>
  /\ predictions_results_recoded' = <<>>
  /\ attr_forest' = NoClassifier /\ forest_pred' = <<>> /\ attr_forest_CM' = <<>>
  /\ fm_test_acc' = NoRatio
  /\ newdf' = 0 /\ recodecols' = <<>> /\ newPreds' = <<>> /\ newY' = <<>>
  /\ newmodel' = NoClassifier /\ preds' = <<>> /\ recodedpreds' = <<>>
  /\ new_acc' = NoRatio
  /\ dataset' = NoFrame /\ dataset2' = NoFrame /\ model1' = NoGlm /\ results' = <<>>
  /\ recoded_fitted' = <<>> /\ tempor' = <<>> /\ r_acc' = NoRatio
  /\ UNCHANGED <<program, csv>>

Next ==
  \/ ReadCsv \/ Sample \/ FindObjcols \/ SetCatcols \/ ShowOverlap
  \/ DescribeObjects \/ FindNumericalCols \/ FitGlmFull \/ SelectPredictors
  \/ Split1 \/ Merge \/ FitGlmTrain \/ RecodeFitted \/ PredictTest
  \/ ThresholdTest \/ FitForest \/ ForestScore \/ ForestConfusion \/ ForestAcc
  \/ CopyFrame \/ DropConstants \/ Encode \/ SelectNewPreds \/ Split2
  \/ FitNewModel \/ NewModelScore \/ PredictNew \/ NewAccuracy
  \/ RReadCsv \/ RCopy \/ RRecode \/ RFitGlm \/ RFitted \/ RAssign
  \/ RCompare \/ RAccuracy

\* one run of one program
Spec == Init /\ [][Next]_vars

\* the notebook run again after it has finished
SpecRerun == Init /\ [][Next \/ Restart]_vars

(***************************************************************************)
(* Properties.                                                             *)
(***************************************************************************)
\* position of a cell in the notebook; "end" comes after the last cell
CellNo(cell) ==
  IF cell = "end" THEN Len(NotebookCells) + 1 ELSE IndexOf(NotebookCells, cell)

\* the notebook has run cell to its end in this run
Passed(cell) == program = "notebook" /\ CellNo(pc) > CellNo(cell)

\* a sequence of row labels lists every row of 0..n-1 at most once
NoRepeat(idx) == Cardinality(Range(idx)) = Len(idx)

\* train and test of one split partition the rows 0..n-1
IsPartition(train, test, n) ==
  /\ Range(train) \cap Range(test) = {}
  /\ Range(train) \cup Range(test) = 0..(n - 1)
  /\ NoRepeat(train) /\ NoRepeat(test)
  /\ Len(train) + Len(test) = n

\* C1: for both splits the train and test row-index sets are disjoint, their
\* union is the full row set, their sizes sum to the row count N, and the
\* predictor and response partitions of one side carry the same row indices.
C1_SplitPartitions ==
  /\ \A r \in 1..Len(splitLog) :
       /\ splitLog[r].s1 # NoSplit =>
            IsPartition(splitLog[r].s1.train, splitLog[r].s1.test, csv.n)
       /\ splitLog[r].s2 # NoSplit =>
            IsPartition(splitLog[r].s2.train, splitLog[r].s2.test, csv.n)
  /\ xtrain.split # 0 =>
       /\ IsPartition(xtrain.idx, xtest.idx, csv.n)
       /\ ytrain.idx = xtrain.idx /\ ytest.idx = xtest.idx
       /\ ytrain.split = xtrain.split /\ ytest.split = xtest.split
       /\ xtest.split = xtrain.split

\* both splits have been made, the second one with two test rows
C1_Witness ==
  /\ xtrain.split = 2 /\ Len(xtest.idx) = 2 /\ Len(ytrain.idx) = Len(xtrain.idx)
  /\ splitLog[run].s1 # NoSplit /\ Len(splitLog[run].s1.test) >= 1

\* Python's round(num * n / den): to the nearest integer, a tie to the even one
Round(frac, n) ==
  LET q == (n * frac[1]) \div frac[2]
      r == (n * frac[1]) % frac[2]
  IN IF 2 * r < frac[2] THEN q
     ELSE IF 2 * r > frac[2] THEN q + 1
     ELSE IF q % 2 = 0 THEN q ELSE q + 1

\* k is the least integer not below frac * n
IsCeiling(k, frac, n) ==
  /\ k * frac[2] >= n * frac[1]
  /\ (k - 1) * frac[2] < n * frac[1]

\* C2 as claimed: the test partition of every split has round(fraction * N)
\* rows and the train partition the other N - round(fraction * N) rows.
C2_RoundedSizes ==
  \A r \in 1..Len(splitLog) :
    /\ splitLog[r].s1 # NoSplit =>
         /\ Len(splitLog[r].s1.test) = Round(TestSize1, csv.n)
         /\ Len(splitLog[r].s1.train) = csv.n - Round(TestSize1, csv.n)
    /\ splitLog[r].s2 # NoSplit =>
         /\ Len(splitLog[r].s2.test) = Round(TestSize2, csv.n)
         /\ Len(splitLog[r].s2.train) = csv.n - Round(TestSize2, csv.n)

\* C2 as amended: the test partition of every split has ceil(fraction * N)
\* rows and the train partition the other rows; for the 1470 rows of the
\* dataset that is 294 and 1176 rows for 0.2, and 368 and 1102 rows for 0.25.
C2_CeilingSizes ==
  /\ \A r \in 1..Len(splitLog) :
       /\ splitLog[r].s1 # NoSplit =>
            /\ IsCeiling(Len(splitLog[r].s1.test), TestSize1, csv.n)
            /\ Len(splitLog[r].s1.train) = csv.n - Len(splitLog[r].s1.test)
       /\ splitLog[r].s2 # NoSplit =>
            /\ IsCeiling(Len(splitLog[r].s2.test), TestSize2, csv.n)
            /\ Len(splitLog[r].s2.train) = csv.n - Len(splitLog[r].s2.test)
  /\ xtrain.split = 1 => IsCeiling(Len(xtest.idx), TestSize1, csv.n)
  /\ xtrain.split = 2 => IsCeiling(Len(xtest.idx), TestSize2, csv.n)
  /\ NTest(TestSize1, 1470) = 294 /\ NTrain(TestSize1, 1470) = 1176
  /\ NTest(TestSize2, 1470) = 368 /\ NTrain(TestSize2, 1470) = 1102

\* the 0.25 split of a table whose quarter is not whole and rounds down
C2_Witness ==
  /\ xtrain.split = 2 /\ csv.n = 5
  /\ Len(xtest.idx) = 2 /\ Len(xtrain.idx) = 3
  /\ Round(TestSize2, csv.n) = 1

\* C3: the split is deterministic: whenever two runs on the same input file
\* have made the same split (same fraction, random_state = 0) they got the
\* same train and test index arrays, whatever the seed of the global
\* generator, the earlier cells and the fitted models of each run were.
C3_SplitDeterministic ==
  \A r1, r2 \in 1..Len(splitLog) :
    /\ (splitLog[r1].s1 # NoSplit /\ splitLog[r2].s1 # NoSplit)
         => splitLog[r1].s1 = splitLog[r2].s1
    /\ (splitLog[r1].s2 # NoSplit /\ splitLog[r2].s2 # NoSplit)
         => splitLog[r1].s2 = splitLog[r2].s2

\* a second run whose global generator was seeded differently from the first
\* run's and has served empattr.sample(3) and the seed of the liblinear fit
\* has made both splits
C3_Witness ==
  /\ run = 2
  /\ splitLog[1].entropy # splitLog[2].entropy
  /\ np_random.pos = 1 /\ np_random.ints = 1
  /\ splitLog[1].s2 # NoSplit /\ splitLog[2].s1 # NoSplit
  /\ splitLog[2].s2 # NoSplit
  /\ newmodel.fitted

\* C4 as claimed: objcols, catcols and empattr_numerical_cols are pairwise
\* disjoint and their union is the column set of the table without the
\* response column 'Attrition'.
C4_ClassesWithoutResponse ==
  Passed("numerical_cols") =>
    /\ Range(objcols) \cap Range(catcols) = {}
    /\ Range(objcols) \cap empattr_numerical_cols = {}
    /\ Range(catcols) \cap empattr_numerical_cols = {}
    /\ Range(objcols) \cup Range(catcols) \cup empattr_numerical_cols
         = Range(heap[empattr].cols) \ {"Attrition"}

\* C4 as amended: empattr_numerical_cols is disjoint from objcols and from
\* catcols, the union of the three sets is the whole column set of the loaded
\* table, the response column 'Attrition' included (it is object-typed and so
\* belongs to objcols), and objcols and catcols share exactly the declared
\* categorical columns that were loaded with object type.
C4_ClassesCoverAllColumns ==
  Passed("numerical_cols") =>
    /\ Range(objcols) \cap empattr_numerical_cols = {}
    /\ Range(catcols) \cap empattr_numerical_cols = {}
    /\ Range(objcols) \cup Range(catcols) \cup empattr_numerical_cols
         = Range(heap[empattr].cols)
    /\ "Attrition" \in Range(objcols)
    /\ Range(objcols) \cap Range(catcols)
         = {c \in Range(catcols) : DtypeOf(csv, c) = "O"}

\* the columns are classified, objcols and catcols are disjoint, and
\* 'Attrition' is one of the object-typed columns
C4_Witness ==
  /\ Passed("numerical_cols")
  /\ Range(objcols) \cap Range(catcols) = {}
  /\ objcols = <<"Attrition", "Gender">>
  /\ Cardinality(empattr_numerical_cols) = 5

\* C5: when objcols and catcols intersect, the run reports a validation
\* failure and no later cell (descriptive statistics, encoding, splitting,
\* fitting) runs on the invalid classification.
C5_OverlapStopsRun ==
  (program = "notebook" /\ Passed("catcols")
     /\ Range(objcols) \cap Range(catcols) # {})
    => CellNo(pc) <= CellNo("empattr_obj")

\* the Attrition labels of the test rows of the 0.2 split, from the loaded table
ActualTest1 ==
  LET test == splitLog[run].s1.test
  IN [k \in 1..Len(test) |-> heap[empattr].data["Attrition"][test[k]]]

\* number of test rows of the 0.2 split with actual label a and predicted label p
Pairs(a, p) ==
  Cardinality({k \in 1..Len(forest_pred) :
                 ActualTest1[k] = a /\ forest_pred[k] = p})

\* C6: for every 2x2 confusion matrix of the random forest, the accuracy
\* (CM[1,1] + CM[0,0]) / xtest.shape[0] is the fraction of test rows whose
\* predicted label is the actual one; rows index the actual class and columns
\* the predicted class, and the denominator is the sum of the four entries.
C6_AccuracyFromMatrix ==
  (Passed("forest_acc") /\ Len(attr_forest_CM) = 2) =>
    /\ fm_test_acc =
         <<Cardinality({k \in 1..Len(forest_pred) : forest_pred[k] = ActualTest1[k]}),
           Len(forest_pred)>>
    /\ attr_forest_CM[1][1] = Pairs("No", "No")
    /\ attr_forest_CM[1][2] = Pairs("No", "Yes")
    /\ attr_forest_CM[2][1] = Pairs("Yes", "No")
    /\ attr_forest_CM[2][2] = Pairs("Yes", "Yes")
    /\ fm_test_acc[2] = attr_forest_CM[1][1] + attr_forest_CM[1][2]
                        + attr_forest_CM[2][1] + attr_forest_CM[2][2]

\* the forest got one of two test rows right, a true positive, and the other
\* one is a false positive
C6_Witness ==
  /\ Passed("forest_acc") /\ Len(attr_forest_CM) = 2
  /\ fm_test_acc = <<1, 2>>
  /\ attr_forest_CM[2][2] = 1 /\ attr_forest_CM[1][2] = 1

\* C7: the entries of the random forest's confusion matrix are non-negative
\* integers and their sum is the number of rows of the test partition of the
\* 0.2 split, whatever labels the forest predicts.
C7_MatrixSumsToTestSize ==
  Passed("forest_cm") =>
    /\ \A i, j \in 1..Len(attr_forest_CM) : attr_forest_CM[i][j] \in Nat
    /\ SumSeq([i \in 1..Len(attr_forest_CM) |-> SumSeq(attr_forest_CM[i])])
         = Len(splitLog[run].s1.test)
    /\ Len(forest_pred) = Len(splitLog[run].s1.test)
    /\ Len(splitLog[run].s1.test) = NTest(TestSize1, csv.n)

\* a 2x2 matrix over two test rows, one false negative and one true negative
C7_Witness ==
  /\ Passed("forest_cm")
  /\ Len(attr_forest_CM) = 2
  /\ attr_forest_CM[2][1] = 1 /\ attr_forest_CM[1][1] = 1

\* the place of a stage in Loader, Classifier/Encoder, Splitter, Fitters, Evaluator
StageRank(st) ==
  CASE st = "Loader" -> 1
    [] st \in {"Classifier", "Encoder"} -> 2
    [] st = "Splitter" -> 3
    [] st = "Fitter" -> 4
    [] OTHER -> 5

\* C8 as claimed: the stages of one run execute strictly in the order Loader,
\* Classifier/Encoder, Splitter, Fitters, Evaluator: no step of an earlier
\* stage runs after a step of a later stage.
C8_StagesInPipelineOrder ==
  \A i, j \in 1..Len(stages) :
    i < j => StageRank(stages[i]) <= StageRank(stages[j])

\* the stages of a whole run of the notebook, in the order they execute
NotebookStages ==
  <<"Loader", "Classifier", "Fitter", "Splitter", "Fitter", "Evaluator",
    "Fitter", "Evaluator", "Encoder", "Splitter", "Fitter", "Evaluator">>

\* C8 as amended: the Loader runs first and the Classifier next, and each
\* modelling path runs its own stages in pipeline order (the 0.2 split, then
\* the train-set GLM fit and its evaluation, then the forest fit and its
\* evaluation; the Encoder, then the 0.25 split, then the L1 fit and its
\* evaluation); the paths follow one another, so the full-data GLM is fitted
\* before any split and the Encoder and the second Splitter run after the
\* Fitter and Evaluator steps of the first path.
C8_StagesPerPath ==
  program = "notebook" =>
    /\ Len(stages) <= Len(NotebookStages)
    /\ stages = SubSeq(NotebookStages, 1, Len(stages))
    /\ smf_model_train_result.fitted => xtrain2.split = 1
    /\ fitted_xtrain2_recoded # <<>> => smf_model_train_result.fitted
    /\ attr_forest.fitted => splitLog[run].s1 # NoSplit
    /\ attr_forest_CM # <<>> => attr_forest.fitted
    /\ xtrain.split = 2 => (recodecols # <<>> /\ fm_test_acc # NoRatio)
    /\ newmodel.fitted => xtrain.split = 2
    /\ recodedpreds # <<>> => newmodel.fitted

\* a whole run of the notebook: all twelve stage changes have happened
C8_Witness ==
  /\ program = "notebook" /\ status = "done"
  /\ stages = NotebookStages
  /\ newmodel.fitted /\ attr_forest.fitted /\ smf_model_train_result.fitted

\* two frames have the same columns, dtypes and values
FrameEq(a, b) ==
  /\ a.cols = b.cols
  /\ a.n = b.n
  /\ a.dtype = b.dtype
  /\ a.data = b.data

\* C9: the loaded table is never changed after loading: the encoding and the
\* dropping of EmployeeCount and StandardHours change the working copy newdf
\* only and leave every column and value of empattr as loaded; in the R script
\* adding Attrition2 changes dataset2 only and dataset stays without it.
C9_LoadedTableUnchanged ==
  /\ empattr # 0 => FrameEq(heap[empattr], read_csv(csv))
  /\ newdf # 0 => newdf # empattr
  /\ Passed("encode") =>
       /\ \A c \in Range(recodecols) : heap[newdf].dtype[c] = "int64"
       /\ Range(heap[newdf].cols) = Range(Columns) \ {"EmployeeCount", "StandardHours"}
  /\ dataset.n # 0 =>
       /\ FrameEq(dataset, read_csv(csv))
       /\ "Attrition2" \notin Range(dataset.cols)
  /\ (program = "rscript" /\ status = "done") =>
       "Attrition2" \in Range(dataset2.cols)

\* the working copy has been encoded and has lost the two constant columns,
\* the loaded table still has its strings and all its columns
C9_Witness ==
  /\ Passed("encode")
  /\ heap[newdf].dtype["Attrition"] = "int64"
  /\ heap[empattr].dtype["Attrition"] = "O"
  /\ Len(heap[newdf].cols) = Len(heap[empattr].cols) - 2
  /\ \E i \in 0..(csv.n - 1) : heap[empattr].data["Attrition"][i] = "Yes"

\* the cells that fit a model
FitCells == {"glm_full", "glm_train", "forest_fit", "newmodel_fit"}

\* C10: a failure while fitting one model variant is fatal for that variant
\* only: the run goes on, so that when it stops the other variants have been
\* fitted and evaluated.
C10_FitFailureIsolated ==
  (program = "notebook" /\ status = "error" /\ pc \in FitCells) =>
    \/ ENABLED Next
    \/ /\ pc \in {"glm_full", "glm_train"} =>
            (attr_forest.fitted /\ fm_test_acc # NoRatio
             /\ newmodel.fitted /\ new_acc # NoRatio)
       /\ pc = "forest_fit" =>
            (smf_model_train_result.fitted /\ predictions_results # <<>>
             /\ newmodel.fitted /\ new_acc # NoRatio)
       /\ pc = "newmodel_fit" =>
            (smf_model_train_result.fitted /\ predictions_results # <<>>
             /\ attr_forest.fitted /\ fm_test_acc # NoRatio)

\* position of a statement in the R script; "end" comes after the last one
RStmtNo(stmt) ==
  IF stmt = "end" THEN Len(RStatements) + 1 ELSE IndexOf(RStatements, stmt)

\* the R script has run stmt to its end
RPassed(stmt) == program = "rscript" /\ RStmtNo(pc) > RStmtNo(stmt)

\* the labels of the loaded table, by row
LoadedAttrition == heap[empattr].data["Attrition"]

\* the codes the encoder gave the response column of the working copy, by row
EncodedAttrition == heap[newdf].data["Attrition"]

\* the integer codes of the R script: 1 stands for "No", and 1 is assigned to
\* a probability above the threshold
RCodesNoAsOne ==
  /\ RPassed("r_recode") =>
       \A i \in 0..(dataset2.n - 1) :
         dataset2.data["Attrition2"][i] = 1 <=> dataset2.data["Attrition"][i] = "No"
  /\ RPassed("r_assign") =>
       \A k \in 1..Len(results) :
         recoded_fitted[k] = 1 <=> results[k] > RThreshold

\* the integer codes of the notebook's GLM path: 0 is assigned to a
\* probability above 0.5, and 0 stands for "No"
GlmPathCodesNoAsZero ==
  Passed("threshold_test") =>
    \A k \in 1..Len(predictions_test) :
      /\ predictions_results[k] = 0 <=> predictions_test[k] > th
      /\ predictions_results_recoded[k] = "No" <=> predictions_results[k] = 0

\* C11 as stated: the integer label convention differs between the R script
\* (1 is "No", 1 for a probability above the threshold) and the notebook's GLM
\* path (0 for a probability above 0.5), and the label-encoded Attrition of
\* the notebook's full-feature path associates codes and labels differently
\* from the notebook's GLM thresholding path.
C11_EncodedDiffersFromGlmPath ==
  /\ RCodesNoAsOne
  /\ GlmPathCodesNoAsZero
  /\ Passed("encode") =>
       \E i \in 0..(csv.n - 1) :
         NotebookLabel(EncodedAttrition[i]) # LoadedAttrition[i]

\* C11 amended: the convention differs between the two scripts only.  In the
\* notebook the label-encoded Attrition has the association of the GLM
\* thresholding path (0 is "No", 1 is "Yes") whenever "No" occurs in the
\* column; a column of "Yes" only is coded 0.
C11_ConventionPerScript ==
  /\ RCodesNoAsOne
  /\ GlmPathCodesNoAsZero
  /\ Passed("encode") =>
       IF \E i \in 0..(csv.n - 1) : LoadedAttrition[i] = "No"
       THEN \A i \in 0..(csv.n - 1) :
              NotebookLabel(EncodedAttrition[i]) = LoadedAttrition[i]
       ELSE \A i \in 0..(csv.n - 1) : EncodedAttrition[i] = 0

\* both labels are in the table and have been encoded, and the GLM path has
\* given both codes to rows of the test partition
C11_Witness ==
  /\ Passed("encode")
  /\ \E i, j \in 0..(csv.n - 1) :
       /\ LoadedAttrition[i] = "No" /\ EncodedAttrition[i] = 0
       /\ LoadedAttrition[j] = "Yes" /\ EncodedAttrition[j] = 1
  /\ \E k, l \in 1..Len(predictions_results) :
       /\ predictions_results[k] = 0 /\ predictions_results_recoded[k] = "No"
       /\ predictions_results[l] = 1 /\ predictions_results_recoded[l] = "Yes"

\* the recoded ground truth of the R script, as a list
RActual == [k \in 1..dataset2.n |-> dataset2.data["Attrition2"][k - 1]]

\* C12: in the R script the predicted label is 1 exactly for a fitted
\* probability strictly above the threshold 0.5 and 0 otherwise, the comparison
\* list holds 1 at exactly the positions where predicted and actual label are
\* equal, and the accuracy is the number of equal positions over N, a number
\* between 0 and 1.
C12_RAccuracy ==
  /\ RPassed("r_assign") =>
       /\ Len(recoded_fitted) = csv.n
       /\ \A k \in 1..csv.n :
            /\ recoded_fitted[k] \in {0, 1}
            /\ recoded_fitted[k] = 1 <=> results[k] > 50
  /\ RPassed("r_compare") =>
       /\ Len(tempor) = csv.n
       /\ \A k \in 1..csv.n :
            /\ tempor[k] \in {0, 1}
            /\ tempor[k] = 1 <=> recoded_fitted[k] = RActual[k]
  /\ RPassed("r_accuracy") =>
       /\ r_acc[1] = Cardinality({k \in 1..csv.n : recoded_fitted[k] = RActual[k]})
       /\ r_acc[2] = csv.n
       /\ 0 <= r_acc[1] /\ r_acc[1] <= r_acc[2] /\ r_acc[2] > 0

\* the script has finished on a table where one probability is on the
\* threshold, one above and one below it, and where some predicted labels are
\* right and some are wrong
C12_Witness ==
  /\ RPassed("r_accuracy")
  /\ \E i, j, k \in 1..csv.n :
       /\ results[i] = 50 /\ recoded_fitted[i] = 0
       /\ results[j] > 50 /\ recoded_fitted[j] = 1
       /\ results[k] < 50 /\ recoded_fitted[k] = 0
  /\ 0 < r_acc[1] /\ r_acc[1] < r_acc[2]

\* the notebook has just run cell to its end
JustRan(cell) == Passed(cell) /\ pc = After("notebook", cell)

\* C13: the encoder replaces every column listed in catcols + objcols by
\* integer codes: two rows get the same code exactly when they held the same
\* value, the codes of a column with k distinct values are exactly 0..k-1,
\* given in the sorted order of the values; the other columns are unchanged.
C13_EncoderCodes ==
  JustRan("encode") =>
    /\ recodecols = catcols \o objcols
    /\ \A c \in Range(heap[newdf].cols) :
         LET orig == heap[empattr].data[c]
             dt == heap[empattr].dtype[c]
             new == heap[newdf].data[c]
             rows == 0..(csv.n - 1)
         IN IF c \in Range(recodecols)
            THEN /\ \A i, j \in rows : new[i] = new[j] <=> orig[i] = orig[j]
                 /\ {new[i] : i \in rows} =
                      0..(Cardinality({orig[i] : i \in rows}) - 1)
                 /\ \A i, j \in rows :
                      SortKey(dt, orig[i]) < SortKey(dt, orig[j]) => new[i] < new[j]
            ELSE new = orig /\ heap[newdf].dtype[c] = dt

\* an integer column whose first value is the larger one and a text column
\* with two values have been encoded, a predictor outside the list has not
C13_Witness ==
  /\ JustRan("encode")
  /\ csv.n >= 2 /\ ~csv.eduText
  /\ "Education" \in Range(recodecols) /\ "Age" \notin Range(recodecols)
  /\ heap[empattr].data["Education"][0] = 3 /\ heap[newdf].data["Education"][0] = 1
  /\ heap[empattr].data["Education"][1] = 1 /\ heap[newdf].data["Education"][1] = 0
  /\ heap[empattr].data["Gender"][0] # heap[empattr].data["Gender"][1]
  /\ heap[newdf].data["Gender"][0] # heap[newdf].data["Gender"][1]
  /\ heap[newdf].data["Age"][1] = 19

\* the outcome the R script's code stands for: recode_y gives "No" the code 1
ROutcome(code) == IF code = recode_y("No") THEN "No" ELSE "Yes"

\* the R script's labelling applied to the probabilities of the notebook's
\* test partition
RCodesOfTest ==
  [k \in 1..Len(predictions_test) |-> assign_label(predictions_test[k], RThreshold)]

\* the R script's recoding applied to the actual labels of the notebook's
\* test partition
RActualOfTest == [k \in 1..Len(predictions_test) |-> recode_y(ActualTest1[k])]

\* C14: for the same probability p of "No" and the threshold 0.5 the R script
\* and the notebook assign the same outcome to every row with opposite codes
\* ("No" exactly when p > 0.5, R code 1 and notebook code 0; "Yes" otherwise,
\* also for p = 0.5), so the number of rows that agree with the ground truth,
\* and with it the accuracy, is the same in both.
C14_SameOutcome ==
  /\ Passed("threshold_test") =>
       LET rcodes == RCodesOfTest
           actual == ActualTest1
       IN /\ \A k \in 1..Len(predictions_test) :
               /\ predictions_results_recoded[k] = ROutcome(rcodes[k])
               /\ predictions_results_recoded[k] = "No" <=> predictions_test[k] > 50
               /\ predictions_results[k] = 1 - rcodes[k]
          /\ Cardinality({k \in 1..Len(predictions_test) :
                            predictions_results_recoded[k] = actual[k]})
               = SumSeq(compare_lists(rcodes, RActualOfTest))
  /\ RPassed("r_accuracy") =>
       /\ \A k \in 1..Len(results) :
            /\ ROutcome(recoded_fitted[k]) = NotebookLabel(NotebookRecode(results[k]))
            /\ ROutcome(recoded_fitted[k]) = "No" <=> results[k] > 50
            /\ recoded_fitted[k] = 1 - NotebookRecode(results[k])
       /\ Cardinality({k \in 1..Len(results) :
                         NotebookLabel(NotebookRecode(results[k]))
                           = dataset.data["Attrition"][k - 1]})
            = r_acc[1]

\* the notebook has labelled a test row whose probability is exactly 0.5: it
\* is "Yes" under both conventions (notebook code 1, R code 0), and the row
\* left the company, so both count it as right, while another test row is
\* counted as wrong by both
C14_Witness ==
  /\ Passed("threshold_test")
  /\ \E k \in 1..Len(predictions_test) :
       /\ predictions_test[k] = 50
       /\ predictions_results[k] = 1 /\ predictions_results_recoded[k] = "Yes"
       /\ RCodesOfTest[k] = 0
       /\ ActualTest1[k] = "Yes"
  /\ SumSeq(compare_lists(RCodesOfTest, RActualOfTest)) \in 1..(Len(predictions_test) - 1)

\* the cells that fit or use the train-set GLM, the forest, the L1 model
GlmCells == {"merge", "glm_train", "fitted_recoded", "predict_test", "threshold_test"}
ForestCells == {"forest_fit", "forest_score", "forest_cm", "forest_acc"}
L1Cells == {"newmodel_fit", "newmodel_score", "preds"}

\* the splits that the cells of a group have read partitions of
SplitsRead(cells) ==
  UNION {{u.read[k].split : k \in 1..Len(u.read)} : u \in {v \in useLog : v.cell \in cells}}

\* every object a cell has read comes from the split numbered no and holds
\* the rows of its train or of its test partition
ReadsPartitionOf(u, no, split) ==
  \A k \in 1..Len(u.read) :
    /\ u.read[k].split = no
    /\ u.read[k].idx \in {split.train, split.test}

\* C15: in a top-to-bottom run the names xtrain, xtest, ytrain, ytest are
\* bound by the 0.2 split over the 3 predictors and then by the 0.25 split
\* over the encoded predictors; the cells of the train-set GLM and of the
\* forest read only the first binding, those of the L1 logistic regression
\* only the second, so no model is scored or predicts on a partition of
\* another split than the one it was fitted on.
C15_EachPathReadsItsSplit ==
  program = "notebook" =>
    /\ (Passed("split1") /\ ~Passed("split2")) =>
         /\ {xtrain.split, xtest.split, ytrain.split, ytest.split} = {1}
         /\ xtrain.cols = predictors /\ xtest.cols = predictors
    /\ Passed("split2") =>
         /\ {xtrain.split, xtest.split, ytrain.split, ytest.split} = {2}
         /\ xtrain.cols = newPreds /\ xtest.cols = newPreds
    /\ \A u \in useLog :
         IF u.cell \in GlmCells \cup ForestCells
         THEN ReadsPartitionOf(u, 1, splitLog[run].s1)
         ELSE u.cell \in L1Cells /\ ReadsPartitionOf(u, 2, splitLog[run].s2)

\* the run is over: the forest's matrix was computed on the test rows of the
\* first split, the L1 model predicted the test rows of the second, and the
\* two test partitions are different
C15_Witness ==
  /\ program = "notebook" /\ status = "done"
  /\ \E u, v \in useLog :
       /\ u.cell = "forest_cm" /\ u.read[1].split = 1
       /\ u.read[1].idx = splitLog[run].s1.test
       /\ v.cell = "preds" /\ v.read[1].split = 2
       /\ v.read[1].idx = splitLog[run].s2.test
       /\ u.read[1].idx # v.read[1].idx
  /\ SplitsRead(GlmCells) = {1} /\ SplitsRead(L1Cells) = {2}

\* C16: in the full-feature logistic regression the response column
\* Attrition is label-encoded with the other object columns but is never a
\* column of the predictor table: the predictors are exactly the loaded
\* columns without EmployeeCount, StandardHours and Attrition, the response is
\* exactly the encoded Attrition column, and no row of the test partition is
\* passed to the fit.
C16_ResponseNotAPredictor ==
  program = "notebook" =>
    /\ Passed("encode") =>
         /\ "Attrition" \in Range(recodecols)
         /\ heap[newdf].dtype["Attrition"] = "int64"
    /\ Passed("newPreds") =>
         /\ newPreds = SelectSeq(heap[empattr].cols,
                          LAMBDA c : c \notin {"EmployeeCount", "StandardHours",
                                                "Attrition"})
         /\ newY = EncodedAttrition
    /\ Passed("split2") => "Attrition" \notin Range(xtrain.cols) \cup Range(xtest.cols)
    /\ \A u \in useLog :
         u.cell = "newmodel_fit" =>
           LET X == u.read[1]
               y == u.read[2]
           IN /\ X.cols = newPreds /\ "Attrition" \notin Range(X.cols)
              /\ y.col = "Attrition" /\ y.idx = X.idx
              /\ y.vals = [k \in 1..Len(X.idx) |-> EncodedAttrition[X.idx[k]]]
              /\ Range(X.idx) \cap Range(splitLog[run].s2.test) = {}
              /\ X.idx = splitLog[run].s2.train

\* the L1 model has been fitted on two or more training rows holding both
\* codes of the response, while the test partition holds rows as well
C16_Witness ==
  /\ Passed("newmodel_fit") /\ newmodel.fitted
  /\ Len(splitLog[run].s2.test) >= 1
  /\ \E u \in useLog :
       /\ u.cell = "newmodel_fit"
       /\ Len(u.read[1].idx) >= 2
       /\ Range(u.read[2].vals) = {0, 1}
       /\ Len(u.read[1].cols) = Len(heap[empattr].cols) - 3

====
